---- MODULE Spec2Model ----
(***************************************************************************)
(* Model of philpearl/statichash: a hash table with string keys that is    *)
(* built in one allocation (Write), written to a byte stream (WriteTo) and  *)
(* used in place from the bytes of that stream (Read).                      *)
(*                                                                         *)
(* Memory is modelled byte by byte.  The views the code derives with        *)
(* unsafe slice headers are address ranges over one byte array; the part    *)
(* of a view that lies outside the allocation it was derived from is        *)
(* foreign memory: its content can change under the table (ForeignWrite)    *)
(* and an access to it can fault.                                           *)
(***************************************************************************)
EXTENDS Integers, Sequences, FiniteSets, TLC

(***************************************************************************)
(* Bounds of the model.                                                     *)
(***************************************************************************)
MaxItems == 3
MaxValueSize == 1
MaxTotalKeyLength == 3
MaxSets == 3
MaxForeign == 1
MaxGets == 2
MaxCloses == 3
MaxLayoutItems == 9
MaxLayoutValueSize == 17
MaxLayoutKeyLength == 40

(***************************************************************************)
(* Inputs.  Keys are byte strings; the hash function is external, so any    *)
(* assignment of fingerprints to keys is possible.                          *)
(***************************************************************************)
Keys == { <<>>, <<97>>, <<98, 99>> }
Fingerprints == { 0, 3, 16777223 }
\* Where a key is placed depends on its fingerprint and not on its bytes, so
\* one assignment is taken for each multiset of fingerprints.
HashFunctions ==
    { h \in [Keys -> Fingerprints] :
        \A j, k \in Keys : Len(j) <= Len(k) => h[j] <= h[k] }
ForeignBytes == { 0 }
Procs == { 1, 2 }

\* the value the caller passes to its n-th Set call: each call passes a new one
Value(n, size) == [i \in 1..size |-> 10 * n + i]

None == "none"
Nil == 0 - 1
\* stands for every integer too large for a slice of the model
Huge == 1024 * 1024 * 1024

Min(a, b) == IF a <= b THEN a ELSE b

(***************************************************************************)
(* Machine arithmetic.                                                      *)
(***************************************************************************)
RECURSIVE BitAnd(_, _)
BitAnd(a, b) ==
    IF a = 0 \/ b = 0 THEN 0
    ELSE (a % 2) * (b % 2) + 2 * BitAnd(a \div 2, b \div 2)

RECURSIVE BitLen(_)
BitLen(x) == IF x = 0 THEN 0 ELSE 1 + BitLen(x \div 2)

RECURSIVE Pow2(_)
Pow2(n) == IF n = 0 THEN 1 ELSE 2 * Pow2(n - 1)

\* unsafe.Sizeof / unsafe.Alignof of the file's types
SizeofHeader == 16
SizeofHash == 4
SizeofKeyOffset == 8
AlignofKeyOffset == 8
SizeofStringLength == 4
SizeofInt64 == 8
WordBits == 64
MaxVarintLen64 == 10

\* (length + v) & ^v
roundUp(length, align) ==
    LET v == align - 1
    IN (length + v) - BitAnd(length + v, v)

\* the same with keys not rounded up
offsets_Unaligned(numItems, valueSize, totalKeyLength) ==
    LET hashes == SizeofHeader
        keys == hashes + SizeofHash * numItems
        values == keys + SizeofKeyOffset * numItems
        keyData == values + valueSize * numItems
        length == keyData + totalKeyLength + SizeofStringLength * numItems
    IN [hashes |-> hashes, keys |-> keys, values |-> values,
        keyData |-> keyData, length |-> length]
offsets(numItems, valueSize, totalKeyLength) ==
    LET hashes == SizeofHeader
        keys == roundUp(hashes + SizeofHash * numItems, AlignofKeyOffset)
        values == keys + SizeofKeyOffset * numItems
        keyData == values + valueSize * numItems
        length == keyData + totalKeyLength + SizeofStringLength * numItems
    IN [hashes |-> hashes, keys |-> keys, values |-> values,
        keyData |-> keyData, length |-> length]

\* bits.LeadingZeros(uint(x)) for 0 <= x < 2^63
LeadingZeros(x) == WordBits - BitLen(x)

\* 1 << uint(int(unsafe.Sizeof(numItems))*8 - bits.LeadingZeros(uint(numItems-1)))
\* (and the same without the decrement of numItems)
RoundUpPow2_NoDecrement(numItems) == Pow2(WordBits - LeadingZeros(numItems))
RoundUpPow2(numItems) == Pow2(WordBits - LeadingZeros(numItems - 1))

(***************************************************************************)
(* Bytes of integers in memory (little endian).                             *)
(***************************************************************************)
ByteOf(x, i) == (x \div Pow2(8 * i)) % 256

RECURSIVE PutBytes(_, _, _)
PutBytes(M, at, bs) ==
    IF bs = <<>> THEN M
    ELSE PutBytes([M EXCEPT ![at] = Head(bs)], at + 1, Tail(bs))

\* the bytes of a non-negative integer below 2^31 stored in w bytes
PutInt(M, at, w, x) ==
    PutBytes(M, at, [i \in 1..w |-> IF i <= 4 THEN ByteOf(x, i - 1) ELSE 0])

\* a uint32 at address at
GetU32(M, at) ==
    M[at] + 256 * M[at + 1] + 65536 * M[at + 2] + 16777216 * M[at + 3]

\* an int64 at address at; a value outside 0..2^24-1 is reported as Huge,
\* which is out of range for every slice of the model
GetI64(M, at) ==
    IF \E i \in 3..7 : M[at + i] # 0 THEN Huge
    ELSE M[at] + 256 * M[at + 1] + 65536 * M[at + 2]

GetBytes(M, at, n) == [i \in 1..n |-> M[at + i - 1]]

(***************************************************************************)
(* encoding/binary varints, as used by addKey and getKey.                   *)
(***************************************************************************)
RECURSIVE UvarintBytes(_)
UvarintBytes(ux) ==
    IF ux >= 128 THEN <<(ux % 128) + 128>> \o UvarintBytes(ux \div 128)
    ELSE <<ux>>

\* binary.PutVarint for x >= 0: zig-zag, then base-128 groups
VarintBytes(x) == UvarintBytes(2 * x)

\* the int64 a decoded uvarint stands for: x := int64(ux >> 1); if ux&1 != 0 { x = ^x }
ZigZagDecode(ux) == IF ux % 2 = 0 THEN ux \div 2 ELSE -(ux \div 2) - 1

AddCap(x, y) == IF x >= Huge \/ y >= Huge THEN Huge ELSE x + y
Shl(b, s) == IF b = 0 THEN 0 ELSE IF s > 21 THEN Huge ELSE b * Pow2(s)

(***************************************************************************)
(* A table T is a record of the fields of struct table; its views are       *)
(* address ranges of the memory M they were derived over:                   *)
(*   T.hashes, T.keys, T.values, T.keyData   first address of the view      *)
(*   T.lenHashes, T.lenValues, T.lenKeyData  slice lengths (elements)       *)
(*   T.limit                                 end of the memory T owns       *)
(*   T.reader                                keyDataReader: buf is the      *)
(*       offset in keyData where the slice buf starts (Nil: nil slice)      *)
(***************************************************************************)
NoReader == [buf |-> Nil, offset |-> 0]

LenBuf(T, rdr) == IF rdr.buf = Nil THEN 0 ELSE T.lenKeyData - rdr.buf

\* t.hashes[cursor] and t.keys[cursor]
HashAt(T, M, cursor) == GetU32(M, T.hashes + SizeofHash * cursor)
KeyAt(T, M, cursor) == GetI64(M, T.keys + SizeofKeyOffset * cursor)

\* binary.ReadUvarint over keyDataReader, from byte i of buf on, with x and s
\* accumulated so far; n is keyDataReader.offset when it returns or panics
OrOob(r, far) == [r EXCEPT !.oob = @ \/ far]

RECURSIVE ReadUvarint(_, _, _, _, _, _)
ReadUvarint(T, M, buf, i, x, s) ==
    IF i = MaxVarintLen64 THEN [panic |-> None, ux |-> x, n |-> i, oob |-> FALSE]
    ELSE IF i >= T.lenKeyData - buf
    THEN [panic |-> "index out of range", ux |-> 0, n |-> i, oob |-> FALSE]
    ELSE IF M[T.keyData + buf + i] < 128
    THEN [panic |-> None,
          ux |-> IF i = MaxVarintLen64 - 1 /\ M[T.keyData + buf + i] > 1 THEN x
                 ELSE AddCap(x, Shl(M[T.keyData + buf + i], s)),
          n |-> i + 1,
          oob |-> T.keyData + buf + i >= T.limit]
    ELSE OrOob(ReadUvarint(T, M, buf, i + 1,
                           AddCap(x, Shl(M[T.keyData + buf + i] - 128, s)), s + 7),
               T.keyData + buf + i >= T.limit)

\* the rest of getKey once ReadVarint has returned r: the slice expression
\* t.keyData[offset+n : offset+n+len] and the string made of it
KeyRead(T, M, offset, r) ==
    LET len == ZigZagDecode(r.ux)
        lo == r.n + offset
        hi == r.n + offset + len
        rdr == [buf |-> offset, offset |-> r.n]
    IN IF r.panic # None
       THEN [panic |-> r.panic, key |-> <<>>, reader |-> rdr, oob |-> r.oob]
       ELSE IF hi < lo \/ hi > T.lenKeyData
       THEN [panic |-> "slice bounds out of range", key |-> <<>>, reader |-> rdr,
             oob |-> r.oob]
       ELSE [panic |-> None, key |-> GetBytes(M, T.keyData + lo, len),
             reader |-> rdr, oob |-> r.oob]

\* getKey(offset): the key, or the panic of a slice expression or of ReadByte
getKey(T, M, offset) ==
    IF offset < 0 \/ offset > T.lenKeyData
    THEN [panic |-> "slice bounds out of range", key |-> <<>>, reader |-> T.reader,
          oob |-> FALSE]
    ELSE KeyRead(T, M, offset, ReadUvarint(T, M, offset, 0, 0, 0))

NextCursor(T, cursor) == IF cursor + 1 = T.numItems THEN 0 ELSE cursor + 1

\* find(key, hashVal) from the probe position cursor on; rdr is keyDataReader
RECURSIVE Probe(_, _, _, _, _, _, _)

\* one turn of the loop of find at an occupied slot: same is
\* t.hashes[cursor] == hashVal, g what getKey(t.keys[cursor]) returns
ProbeSlot(T, M, key, hashVal, cursor, start, rdr, same, g) ==
    LET rdr1 == IF same THEN g.reader ELSE rdr
        oob1 == \/ T.hashes + SizeofHash * (cursor + 1) > T.limit
                \/ same /\ (T.keys + SizeofKeyOffset * (cursor + 1) > T.limit \/ g.oob)
    IN IF same /\ g.panic # None
       THEN [cursor |-> cursor, found |-> FALSE, panic |-> g.panic,
             reader |-> rdr1, oob |-> oob1]
       ELSE IF same /\ g.key = key
       THEN [cursor |-> cursor, found |-> TRUE, panic |-> None,
             reader |-> rdr1, oob |-> oob1]
       ELSE IF NextCursor(T, cursor) = start
       THEN [cursor |-> NextCursor(T, cursor), found |-> FALSE,
             panic |-> "out of space!", reader |-> rdr1, oob |-> oob1]
       ELSE OrOob(Probe(T, M, key, hashVal, NextCursor(T, cursor), start, rdr1), oob1)

Probe(T, M, key, hashVal, cursor, start, rdr) ==
    IF HashAt(T, M, cursor) = 0
    THEN [cursor |-> cursor, found |-> FALSE, panic |-> None, reader |-> rdr,
          oob |-> T.hashes + SizeofHash * (cursor + 1) > T.limit]
    ELSE ProbeSlot(T, M, key, hashVal, cursor, start, rdr,
                   HashAt(T, M, cursor) = hashVal,
                   getKey([T EXCEPT !.reader = rdr], M, KeyAt(T, M, cursor)))

\* cursor = int(hashVal) & (l - 1), then the loop
\* (and the loop entered at slot 0 whatever the hash)
find_FromZero(T, M, key, hashVal) ==
    Probe(T, M, key, hashVal, 0, 0, T.reader)
find(T, M, key, hashVal) ==
    Probe(T, M, key, hashVal, BitAnd(hashVal, T.numItems - 1),
          BitAnd(hashVal, T.numItems - 1), T.reader)

\* the rest of GetPtr once find has returned f; ptr is the address the
\* returned pointer holds, val the valueSize bytes it points to
Lookup(T, M, f) ==
    LET at == f.cursor * T.valueSize
    IN IF f.panic # None
       THEN [ok |-> FALSE, ptr |-> Nil, val |-> <<>>, panic |-> f.panic,
             reader |-> f.reader, oob |-> f.oob]
       ELSE IF ~f.found
       THEN [ok |-> FALSE, ptr |-> Nil, val |-> <<>>, panic |-> None,
             reader |-> f.reader, oob |-> f.oob]
       ELSE IF at >= T.lenValues
       THEN [ok |-> FALSE, ptr |-> Nil, val |-> <<>>, panic |-> "index out of range",
             reader |-> f.reader, oob |-> f.oob]
       ELSE [ok |-> TRUE, ptr |-> T.values + at,
             val |-> GetBytes(M, T.values + at, T.valueSize), panic |-> None,
             reader |-> f.reader,
             oob |-> f.oob \/ T.values + at + T.valueSize > T.limit]

GetPtr(T, M, key, hashVal) == Lookup(T, M, find(T, M, key, hashVal))

\* PutVarint(t.keyData[t.keyOffset:], len(key)) writes the bytes vb of the
\* length, then copy writes those bytes of key that fit
PutKey(T, M, key, vb) ==
    LET start == T.keyOffset
        room == T.lenKeyData - start
        put == Min(Len(vb), room)
        o1 == start + Len(vb)
        copied == Min(Len(key), T.lenKeyData - o1)
    IN IF start > T.lenKeyData
       THEN [panic |-> "slice bounds out of range", mem |-> M, keyOffset |-> start,
             ret |-> start, end |-> T.keyData]
       ELSE IF Len(vb) > room
       THEN [panic |-> "index out of range",
             mem |-> PutBytes(M, T.keyData + start, SubSeq(vb, 1, put)),
             keyOffset |-> start, ret |-> start, end |-> T.keyData + start + put]
       ELSE [panic |-> None,
             mem |-> PutBytes(PutBytes(M, T.keyData + start, vb),
                              T.keyData + o1, SubSeq(key, 1, copied)),
             keyOffset |-> o1 + Len(key), ret |-> start,
             end |-> T.keyData + o1 + copied]

\* addKey(key): the memory and the key write cursor after it, or its panic
addKey(T, M, key) == PutKey(T, M, key, VarintBytes(Len(key)))

\* Set of a key that find did not find, at slot index, once addKey has
\* returned a: t.keys[index] is assigned and the value copied
Insert(T, index, val, oob, a) ==
    IF a.panic # None
    THEN [panic |-> a.panic, t |-> T, mem |-> a.mem, oob |-> oob \/ a.end > T.limit]
    ELSE [panic |-> None, t |-> [T EXCEPT !.keyOffset = a.keyOffset],
          mem |-> PutBytes(PutInt(a.mem, T.keys + SizeofKeyOffset * index,
                                  SizeofKeyOffset, a.ret),
                           T.values + index * T.valueSize, val),
          oob |-> \/ oob
                  \/ a.end > T.limit
                  \/ T.keys + SizeofKeyOffset * (index + 1) > T.limit
                  \/ T.valueSize > 0 /\ T.values + (index + 1) * T.valueSize > T.limit]

\* the rest of Set once find has returned f; T holds the keyDataReader find left
Store(T, M, key, hashVal, val, f) ==
    IF f.panic # None
    THEN [panic |-> f.panic, t |-> T, mem |-> M, oob |-> f.oob]
    ELSE IF f.found
    THEN [panic |-> None, t |-> T,
          mem |-> PutBytes(M, T.values + f.cursor * T.valueSize, val),
          oob |-> \/ f.oob
                  \/ T.valueSize > 0
                     /\ T.values + (f.cursor + 1) * T.valueSize > T.limit]
    ELSE Insert(T, f.cursor, val, f.oob,
                addKey(T, PutInt(M, T.hashes + SizeofHash * f.cursor, SizeofHash,
                                 hashVal), key))

Found(T, M, key, hashVal, val, f) ==
    Store([T EXCEPT !.reader = f.reader], M, key, hashVal, val, f)

\* Set(key, val): the table and the memory after it, or its panic
SetOp(T, M, key, hashVal, val) ==
    Found(T, M, key, hashVal, val, find(T, M, key, hashVal))

(***************************************************************************)
(* State.                                                                   *)
(***************************************************************************)
VARIABLES
    hashOf,     \* the external hash function: key -> fingerprint
    status,     \* "init", "build", "written", "view", or how the run ended
    panic,      \* the panic that ended the run: its message and the call it is from
    args,       \* the arguments New was called with
    t,          \* the Write table
    mem,        \* the memory at the start of t.arena, as far as t's views reach
    sets,       \* Set calls made so far
    shadow,     \* for each key Set so far: the value last Set and the Sets made
    foreign,    \* writes made so far by other owners of foreign memory
    file,       \* the bytes the writer has received
    count,      \* the count WriteTo returned
    rd,         \* the Read table
    vmem,       \* the memory at rd.data, as far as rd's views reach
    procs,      \* the GetPtr call each concurrent reader is in
    gets,       \* GetPtr calls started by concurrent readers
    mapping     \* Read.data and Read.dataLength, and what became of that memory

vars == <<hashOf, status, panic, args, t, mem, sets, shadow, foreign, file, count,
          rd, vmem, procs, gets, mapping>>

NoMem == [a \in {} |-> 0]

NoTable ==
    [valueSize |-> 0, numItems |-> 0, arena |-> 0, limit |-> 0,
     hashes |-> 0, lenHashes |-> 0, keys |-> 0, values |-> 0, lenValues |-> 0,
     keyData |-> 0, lenKeyData |-> 0, keyOffset |-> 0, length |-> 0,
     reader |-> NoReader]

NoPanic == [msg |-> None, in |-> None, key |-> <<>>]
Panic(msg, in, key) ==
    IF msg = None THEN NoPanic ELSE [msg |-> msg, in |-> in, key |-> key]
NoArgs == [numItems |-> 0, valueSize |-> 0, totalKeyLength |-> 0]
NoResult == [ok |-> FALSE, ptr |-> Nil, val |-> <<>>, panic |-> None]
\* Read.data and Read.dataLength; live: the memory at data is mapped;
\* closes, unmaps, err: the Close calls made, the munmap calls that succeeded,
\* the error the last NewFrom or Close returned; touched: the memory was
\* accessed after it was unmapped
NoMapping ==
    [data |-> 0, dataLength |-> 0, live |-> FALSE, closes |-> 0, unmaps |-> 0,
     err |-> None, touched |-> FALSE, mapped |-> FALSE]
\* the address mmap returns
DataBase == 4096
Opened(length) ==
    [NoMapping EXCEPT !.data = DataBase, !.dataLength = length, !.live = TRUE,
                      !.mapped = TRUE]
\* the same for the bytes of a slice the caller owns: no mapping was made
Wrapped(length) == [Opened(length) EXCEPT !.mapped = FALSE]

Idle ==
    [pc |-> "idle", key |-> <<>>, hashVal |-> 0, cursor |-> 0, start |-> 0,
     offset |-> 0, i |-> 0, x |-> 0, s |-> 0, res |-> NoResult]

Init ==
    /\ hashOf \in HashFunctions
    /\ status = "init"
    /\ panic = NoPanic
    /\ args = NoArgs
    /\ t = NoTable
    /\ mem = NoMem
    /\ sets = 0
    /\ shadow = <<>>
    /\ foreign = 0
    /\ file = <<>>
    /\ count = 0
    /\ rd = NoTable
    /\ vmem = NoMem
    /\ procs = [p \in Procs |-> Idle]
    /\ gets = 0
    /\ mapping = NoMapping

\* An access to memory outside every mapping ends the process: nothing of
\* its state is left; m is what is on record of the memory of the Read table.
FaultWith(in, key, m) ==
    /\ status' = "fault"
    /\ panic' = [msg |-> "unexpected fault address", in |-> in, key |-> key]
    /\ args' = NoArgs
    /\ t' = NoTable
    /\ mem' = NoMem
    /\ sets' = 0
    /\ shadow' = <<>>
    /\ foreign' = 0
    /\ file' = <<>>
    /\ count' = 0
    /\ rd' = NoTable
    /\ vmem' = NoMem
    /\ procs' = [p \in Procs |-> Idle]
    /\ gets' = 0
    /\ mapping' = m
    /\ UNCHANGED hashOf

Fault(in, key) == FaultWith(in, key, NoMapping)

(***************************************************************************)
(* New(numItems, valueSize, totalKeyLength)                                 *)
(***************************************************************************)
NewTable(numItems0, valueSize, totalKeyLength) ==
    LET numItems == RoundUpPow2(numItems0)
        off == offsets(numItems, valueSize, totalKeyLength)
        arena == ((off.length + 1) \div SizeofInt64) - 1
    IN [valueSize |-> valueSize, numItems |-> numItems,
        arena |-> arena, limit |-> SizeofInt64 * arena,
        hashes |-> off.hashes, lenHashes |-> numItems,
        keys |-> off.keys,
        values |-> off.values, lenValues |-> numItems * valueSize,
        keyData |-> off.keyData, lenKeyData |-> off.length - off.keyData,
        keyOffset |-> 0, length |-> off.length,
        reader |-> NoReader]

New(numItems, valueSize, totalKeyLength) ==
    /\ status = "init"
    /\ t' = NewTable(numItems, valueSize, totalKeyLength)
    /\ mem' = [a \in 0..(t'.length - 1) |-> 0]
    /\ args' = [numItems |-> numItems, valueSize |-> valueSize,
                totalKeyLength |-> totalKeyLength]
    /\ status' = "build"
    /\ UNCHANGED <<hashOf, panic, sets, shadow, foreign, file, count, rd, vmem, mapping,
                   procs, gets>>

\* Cap(): len(t.hashes)
Cap(T) == T.lenHashes

(***************************************************************************)
(* Set and GetPtr on the Write table.  An access outside the allocation     *)
(* can also end the run with a fault.                                       *)
(***************************************************************************)
Record(key, val) ==
    LET n == IF key \in DOMAIN shadow THEN shadow[key].sets + 1 ELSE 1
    IN [k \in DOMAIN shadow \cup {key} |->
            IF k = key THEN [val |-> val, sets |-> n] ELSE shadow[k]]

Set(key) ==
    /\ status = "build"
    /\ sets < MaxSets
    /\ \E r \in {SetOp(t, mem, key, hashOf[key], Value(sets + 1, t.valueSize))} :
          \/ /\ sets' = sets + 1
             /\ t' = r.t
             /\ mem' = r.mem
             /\ panic' = Panic(r.panic, "Set", key)
             /\ status' = IF r.panic = None THEN "build" ELSE "panic"
             /\ shadow' = IF r.panic = None
                          THEN Record(key, Value(sets + 1, t.valueSize))
                          ELSE shadow
             /\ UNCHANGED <<hashOf, args, foreign, file, count, rd, vmem, mapping, procs,
                            gets>>
          \/ /\ r.oob
             /\ Fault("Set", key)

Get(key) ==
    /\ status = "build"
    /\ \E r \in {GetPtr(t, mem, key, hashOf[key])} :
          \/ /\ t' = [t EXCEPT !.reader = r.reader]
             /\ panic' = Panic(r.panic, "GetPtr", key)
             /\ status' = IF r.panic = None THEN "build" ELSE "panic"
             /\ UNCHANGED <<hashOf, args, mem, sets, shadow, foreign, file, count,
                            rd, vmem, mapping, procs, gets>>
          \/ /\ r.oob
             /\ Fault("GetPtr", key)

\* Another owner of the memory behind the allocation writes a byte of it.
\* Only bytes that hold table data are followed: the table writes a byte
\* past the key write cursor before it reads it.
UsedEnd(T) == T.keyData + Min(T.keyOffset, T.lenKeyData)

ForeignWrite(a, b) ==
    /\ status = "build"
    /\ foreign < MaxForeign
    /\ a >= t.limit /\ a < UsedEnd(t)
    /\ mem[a] # b
    /\ mem' = [mem EXCEPT ![a] = b]
    /\ foreign' = foreign + 1
    /\ UNCHANGED <<hashOf, status, panic, args, t, sets, shadow, file, count,
                   rd, vmem, mapping, procs, gets>>

(***************************************************************************)
(* WriteTo(f).  The writer f is the environment: a Write call takes all     *)
(* bytes, or fails after taking some.  failAt = 1: the Write of the header  *)
(* fails after SizeofInt64 bytes; failAt = 2: the Write of the arena fails  *)
(* at once.  The arena slice handed to f is t.length bytes from the start   *)
(* of the allocation, which holds fewer: reading it can fault.              *)
(***************************************************************************)
Header(T) ==
    PutInt(PutInt([a \in 0..(SizeofHeader - 1) |-> 0], 0, SizeofInt64, T.numItems),
           SizeofInt64, SizeofInt64, T.valueSize)

Bytes(M, from, n) == [i \in 1..n |-> M[from + i - 1]]

WriteTo(failAt) ==
    /\ status \in {"build", "written"}
    /\ \E h \in {Bytes(Header(t), 0, SizeofHeader)}, data \in {Bytes(mem, 0, t.length)},
          l1 \in {IF failAt = 1 THEN SizeofInt64 ELSE SizeofHeader},
          l2 \in {IF failAt = 2 THEN 0 ELSE t.length} :
          \/ /\ \/ /\ failAt = 0
                   /\ file' = h \o data
                   /\ count' = l1 + l2
                   /\ status' = "written"
                \/ /\ failAt = 1
                   /\ file' = SubSeq(h, 1, l1)
                   /\ count' = 0
                   /\ status' = "write error"
                \/ /\ failAt = 2
                   /\ file' = h \o SubSeq(data, 1, l2)
                   /\ count' = l1 + l2
                   /\ status' = "write error"
             /\ UNCHANGED <<hashOf, panic, args, t, mem, sets, shadow, foreign, rd,
                            vmem, mapping, procs, gets>>
          \/ /\ failAt = 0
             /\ t.length > t.limit
             /\ Fault("WriteTo", <<>>)

(***************************************************************************)
(* NewFromBytes(data[:length]) of the bytes written.  The memory behind     *)
(* the slice is foreign; it starts out as the rest of the bytes written.    *)
(***************************************************************************)
newFromData(M, length) ==
    LET numItems == GetI64(M, 0)
        valueSize == GetI64(M, SizeofInt64)
        off == offsets(numItems, valueSize, 0)
        dataStart == SizeofHeader
    IN [valueSize |-> valueSize, numItems |-> numItems,
        arena |-> 0, limit |-> length,
        hashes |-> dataStart + off.hashes, lenHashes |-> numItems,
        keys |-> dataStart + off.keys,
        values |-> dataStart + off.values, lenValues |-> numItems * valueSize,
        keyData |-> dataStart + off.keyData, lenKeyData |-> length - off.keyData,
        keyOffset |-> 0, length |-> 0,
        reader |-> NoReader]

\* the lengths of the slices opened: all bytes written, and the bytes before
\* offset keyData of the layout (a stream cut short)
Lengths == { Len(file), t.keyData }

NewFromBytes(length) ==
    /\ status = "written"
    /\ length <= Len(file)
    /\ vmem' = [a \in 0..(Len(file) + SizeofHeader - 1) |->
                    IF a < Len(file) THEN file[a + 1] ELSE 0]
    /\ rd' = newFromData(vmem', length)
    /\ mapping' = Wrapped(length)
    /\ status' = "view"
    /\ UNCHANGED <<hashOf, panic, args, t, mem, sets, shadow, foreign, file, count,
                   procs, gets>>

\* GetPtr on the Read table
ViewGet(key) ==
    /\ status = "view"
    /\ mapping.live
    /\ \E r \in {GetPtr(rd, vmem, key, hashOf[key])} :
          \/ /\ rd' = [rd EXCEPT !.reader = r.reader]
             /\ panic' = Panic(r.panic, "GetPtr", key)
             /\ status' = IF r.panic = None THEN "view" ELSE "panic"
             /\ UNCHANGED <<hashOf, args, t, mem, sets, shadow, foreign, file,
                            count, vmem, mapping, procs, gets>>
          \/ /\ r.oob
             /\ Fault("GetPtr", key)

ViewForeignWrite(a, b) ==
    /\ status = "view"
    /\ foreign < MaxForeign
    /\ a >= rd.limit /\ a < SizeofHeader + UsedEnd(t)
    /\ vmem[a] # b
    /\ vmem' = [vmem EXCEPT ![a] = b]
    /\ foreign' = foreign + 1
    /\ UNCHANGED <<hashOf, status, panic, args, t, mem, sets, shadow, file, count,
                   rd, procs, gets, mapping>>

NextBuild ==
    \/ \E n \in 1..MaxItems, vs \in 0..MaxValueSize : New(n, vs, MaxTotalKeyLength)
    \/ \E k \in Keys : Set(k)
    \/ \E k \in Keys : Get(k)
    \/ \E a \in t.limit..(UsedEnd(t) - 1), b \in ForeignBytes : ForeignWrite(a, b)

Next ==
    \/ NextBuild
    \/ \E failAt \in 0..2 : WriteTo(failAt)
    \/ \E length \in Lengths : NewFromBytes(length)
    \/ \E k \in Keys : ViewGet(k)
    \/ \E a \in rd.limit..(SizeofHeader + UsedEnd(t) - 1), b \in ForeignBytes :
          ViewForeignWrite(a, b)

Spec == Init /\ [][Next]_vars

(***************************************************************************)
(* Concurrent readers.  Each reader is inside one GetPtr call on the Read   *)
(* table and takes one step of find, getKey or ReadUvarint at a time; the   *)
(* keyDataReader they use is the one field rd.reader of the table.          *)
(***************************************************************************)
At(p, pc) == status = "view" /\ procs[p].pc = pc
Goto(p, r) == procs' = [procs EXCEPT ![p] = r]
OtherVars ==
    <<hashOf, args, t, mem, sets, shadow, foreign, file, count, vmem, mapping>>

\* a reader's call ends in a panic, and the process with it
ReaderPanic(p, msg) ==
    /\ Goto(p, [procs[p] EXCEPT !.pc = "panic", !.res = [NoResult EXCEPT !.panic = msg]])
    /\ status' = "panic"
    /\ panic' = Panic(msg, "GetPtr", procs[p].key)

\* return from find with (cursor, found), and from GetPtr with what follows
ReaderReturn(p, r) ==
    IF r.panic # None
    THEN ReaderPanic(p, r.panic)
    ELSE /\ Goto(p, [procs[p] EXCEPT !.pc = "done",
                                     !.res = [ok |-> r.ok, ptr |-> r.ptr,
                                              val |-> r.val, panic |-> None]])
         /\ UNCHANGED <<status, panic>>

\* cursor++, wrap around, panic at start
ReaderAdvance(p) ==
    IF NextCursor(rd, procs[p].cursor) = procs[p].start
    THEN ReaderPanic(p, "out of space!")
    ELSE /\ Goto(p, [procs[p] EXCEPT !.pc = "find",
                                     !.cursor = NextCursor(rd, procs[p].cursor)])
         /\ UNCHANGED <<status, panic>>

\* GetPtr(key) up to the loop of find
GetPtrCall(p, key) ==
    /\ At(p, "idle")
    /\ gets < MaxGets
    /\ gets' = gets + 1
    /\ Goto(p, [Idle EXCEPT !.pc = "find", !.key = key, !.hashVal = hashOf[key],
                            !.cursor = BitAnd(hashOf[key], rd.numItems - 1),
                            !.start = BitAnd(hashOf[key], rd.numItems - 1)])
    /\ UNCHANGED <<status, panic, rd>>
    /\ UNCHANGED OtherVars

\* the test of the loop and t.hashes[cursor] == hashVal
FindLoop(p) ==
    /\ At(p, "find")
    /\ \E h \in {HashAt(rd, vmem, procs[p].cursor)} :
          IF h = 0
          THEN ReaderReturn(p, Lookup(rd, vmem,
                   [cursor |-> procs[p].cursor, found |-> FALSE, panic |-> None,
                    reader |-> rd.reader, oob |-> FALSE]))
          ELSE IF h # procs[p].hashVal
          THEN ReaderAdvance(p)
          ELSE /\ Goto(p, [procs[p] EXCEPT !.pc = "getKey",
                              !.offset = KeyAt(rd, vmem, procs[p].cursor)])
               /\ UNCHANGED <<status, panic>>
    /\ UNCHANGED <<rd, gets>>
    /\ UNCHANGED OtherVars

\* t.keyDataReader.buf = t.keyData[offset:]
GetKeyBuf(p) ==
    /\ At(p, "getKey")
    /\ IF procs[p].offset < 0 \/ procs[p].offset > rd.lenKeyData
       THEN ReaderPanic(p, "slice bounds out of range") /\ UNCHANGED rd
       ELSE /\ rd' = [rd EXCEPT !.reader.buf = procs[p].offset]
            /\ Goto(p, [procs[p] EXCEPT !.pc = "getKeyOffset"])
            /\ UNCHANGED <<status, panic>>
    /\ UNCHANGED gets
    /\ UNCHANGED OtherVars

\* t.keyDataReader.offset = 0, and the entry of binary.ReadVarint
GetKeyOffset(p) ==
    /\ At(p, "getKeyOffset")
    /\ rd' = [rd EXCEPT !.reader.offset = 0]
    /\ Goto(p, [procs[p] EXCEPT !.pc = "ReadByte", !.i = 0, !.x = 0, !.s = 0])
    /\ UNCHANGED <<status, panic, gets>>
    /\ UNCHANGED OtherVars

\* one turn of the loop of binary.ReadUvarint: ReadByte on keyDataReader
ReadByte(p) ==
    /\ At(p, "ReadByte")
    /\ \E i \in {procs[p].i}, at \in {rd.keyData + rd.reader.buf + rd.reader.offset} :
          IF i = MaxVarintLen64
          THEN /\ Goto(p, [procs[p] EXCEPT !.pc = "slice"])
               /\ UNCHANGED <<status, panic, rd, OtherVars>>
          ELSE IF rd.reader.offset < 0 \/ rd.reader.offset >= LenBuf(rd, rd.reader)
          THEN /\ ReaderPanic(p, "index out of range")
               /\ UNCHANGED <<rd, OtherVars>>
          ELSE \/ /\ rd' = [rd EXCEPT !.reader.offset = @ + 1]
                  /\ IF vmem[at] < 128
                     THEN Goto(p, [procs[p] EXCEPT
                              !.pc = "slice",
                              !.x = IF i = MaxVarintLen64 - 1 /\ vmem[at] > 1 THEN @
                                    ELSE AddCap(@, Shl(vmem[at], procs[p].s))])
                     ELSE Goto(p, [procs[p] EXCEPT
                              !.i = @ + 1, !.s = @ + 7,
                              !.x = AddCap(@, Shl(vmem[at] - 128, procs[p].s))])
                  /\ UNCHANGED <<status, panic, OtherVars>>
               \/ /\ at >= rd.limit
                  /\ Fault("GetPtr", procs[p].key)
    /\ UNCHANGED gets

\* data := t.keyData[offset+n : offset+n+len], the comparison with key, and
\* what find and GetPtr do with its outcome
GetKeySlice(p) ==
    /\ At(p, "slice")
    /\ \E g \in {KeyRead(rd, vmem, procs[p].offset,
                          [panic |-> None, ux |-> procs[p].x,
                           n |-> rd.reader.offset, oob |-> FALSE])} :
          IF g.panic # None
          THEN ReaderPanic(p, g.panic)
          ELSE IF g.key = procs[p].key
          THEN ReaderReturn(p, Lookup(rd, vmem,
                   [cursor |-> procs[p].cursor, found |-> TRUE, panic |-> None,
                    reader |-> rd.reader, oob |-> FALSE]))
          ELSE ReaderAdvance(p)
    /\ UNCHANGED <<rd, gets>>
    /\ UNCHANGED OtherVars

\* the caller has its result and may call again
ReaderDone(p) ==
    /\ At(p, "done")
    /\ Goto(p, Idle)
    /\ UNCHANGED <<status, panic, rd, gets>>
    /\ UNCHANGED OtherVars

\* the table the readers share: MaxItems slots, the keys Set in this order
BuildKeys == << <<>>, <<97>>, <<98, 99>> >>

NextReaders ==
    \/ New(MaxItems, MaxValueSize, MaxTotalKeyLength)
    \/ sets < Len(BuildKeys) /\ Set(BuildKeys[sets + 1])
    \/ WriteTo(0)
    \/ NewFromBytes(Len(file))
    \/ \E p \in Procs, k \in Keys : GetPtrCall(p, k)
    \/ \E p \in Procs : FindLoop(p)
    \/ \E p \in Procs : GetKeyBuf(p)
    \/ \E p \in Procs : GetKeyOffset(p)
    \/ \E p \in Procs : ReadByte(p)
    \/ \E p \in Procs : GetKeySlice(p)
    \/ \E p \in Procs : ReaderDone(p)

SpecReaders == Init /\ [][NextReaders]_vars

(***************************************************************************)
(* NewFrom(filename) and Close.  Opening the file, seeking, mmap and mlock  *)
(* are the environment: each can fail.  After a munmap the views of the     *)
(* table still point at the region; an access to it faults, or reads what   *)
(* a later mapping at the same address holds.                               *)
(***************************************************************************)
NewFrom(fails) ==
    /\ status = "written"
    /\ IF fails
       THEN /\ mapping' = [mapping EXCEPT !.err = "errno"]
            /\ UNCHANGED <<status, rd, vmem>>
       ELSE /\ vmem' = [a \in 0..(Len(file) + SizeofHeader - 1) |->
                           IF a < Len(file) THEN file[a + 1] ELSE 0]
            /\ rd' = newFromData(vmem', Len(file))
            /\ mapping' = Opened(Len(file))
            /\ status' = "view"
    /\ UNCHANGED <<hashOf, panic, args, t, mem, sets, shadow, foreign, file, count,
                   procs, gets>>

\* the same with the two assignments after unmap left out
Close_KeepsData(unmapOk) ==
    /\ status = "view"
    /\ mapping.closes < MaxCloses
    /\ mapping' =
          IF mapping.data # 0 /\ mapping.dataLength # 0
          THEN IF unmapOk
               THEN [mapping EXCEPT !.closes = @ + 1, !.unmaps = @ + 1,
                                    !.live = FALSE, !.err = None]
               ELSE [mapping EXCEPT !.closes = @ + 1, !.err = "errno"]
          ELSE [mapping EXCEPT !.closes = @ + 1, !.err = None]
    /\ UNCHANGED <<hashOf, status, panic, args, t, mem, sets, shadow, foreign, file,
                   count, rd, vmem, procs, gets>>
Close(unmapOk) ==
    /\ status = "view"
    /\ mapping.closes < MaxCloses
    /\ mapping' =
          IF mapping.data # 0 /\ mapping.dataLength # 0
          THEN IF unmapOk
               THEN [mapping EXCEPT !.closes = @ + 1, !.unmaps = @ + 1,
                                    !.live = FALSE, !.data = 0, !.dataLength = 0,
                                    !.err = None]
               ELSE [mapping EXCEPT !.closes = @ + 1, !.err = "errno"]
          ELSE [mapping EXCEPT !.closes = @ + 1, !.err = None]
    /\ UNCHANGED <<hashOf, status, panic, args, t, mem, sets, shadow, foreign, file,
                   count, rd, vmem, procs, gets>>

\* what the region can hold once it is unmapped and mapped anew: the bytes
\* it held, or zero pages
Remapped == { vmem, [a \in DOMAIN vmem |-> 0] }

\* GetPtr on a Read table whose region is unmapped
ClosedGet(key) ==
    /\ status = "view"
    /\ ~mapping.live
    /\ \/ FaultWith("GetPtr", key, [mapping EXCEPT !.touched = TRUE])
       \/ \E M \in Remapped :
             \E r \in {GetPtr(rd, M, key, hashOf[key])} :
                /\ rd' = [rd EXCEPT !.reader = r.reader]
                /\ panic' = Panic(r.panic, "GetPtr", key)
                /\ status' = IF r.panic = None THEN "view" ELSE "panic"
                /\ mapping' = [mapping EXCEPT !.touched = TRUE]
                /\ UNCHANGED <<hashOf, args, t, mem, sets, shadow, foreign, file,
                               count, vmem, procs, gets>>

NextClose ==
    \/ New(MaxItems, MaxValueSize, MaxTotalKeyLength)
    \/ sets < Len(BuildKeys) /\ Set(BuildKeys[sets + 1])
    \/ WriteTo(0)
    \/ \E fails \in BOOLEAN : NewFrom(fails)
    \/ \E length \in Lengths : NewFromBytes(length)
    \/ \E unmapOk \in BOOLEAN : Close(unmapOk)
    \/ \E k \in Keys : ViewGet(k)
    \/ \E k \in Keys : ClosedGet(k)

SpecClose == Init /\ [][NextClose]_vars

(***************************************************************************)
(* offsets on its own: the arguments are drawn in the initial state, and    *)
(* the one step computes the layout into the offsets of t.                  *)
(***************************************************************************)
InitOffsets ==
    /\ args \in [numItems : 0..MaxLayoutItems, valueSize : 0..MaxLayoutValueSize,
                  totalKeyLength : 0..MaxLayoutKeyLength]
    /\ hashOf = [k \in Keys |-> 3]
    /\ status = "init"
    /\ panic = NoPanic
    /\ t = NoTable
    /\ mem = NoMem
    /\ sets = 0
    /\ shadow = <<>>
    /\ foreign = 0
    /\ file = <<>>
    /\ count = 0
    /\ rd = NoTable
    /\ vmem = NoMem
    /\ procs = [p \in Procs |-> Idle]
    /\ gets = 0
    /\ mapping = NoMapping

Offsets ==
    /\ status = "init"
    /\ status' = "layout"
    /\ \E off \in {offsets(args.numItems, args.valueSize, args.totalKeyLength)} :
          t' = [NoTable EXCEPT !.hashes = off.hashes, !.keys = off.keys,
                               !.values = off.values, !.keyData = off.keyData,
                               !.length = off.length]
    /\ UNCHANGED <<hashOf, panic, args, mem, sets, shadow, foreign, file, count, rd,
                   vmem, procs, gets, mapping>>

SpecOffsets == InitOffsets /\ [][Offsets]_vars

(***************************************************************************)
(* Properties.                                                              *)
(***************************************************************************)
Inserted == DOMAIN shadow
Slots(T) == 0..(T.numItems - 1)
FullData == status = "view" /\ rd.limit = Len(file)

\* what GetPtr(key) returns on the Write table and on the Read table now
BuildGet(key) == GetPtr(t, mem, key, hashOf[key])
ViewGetPtr(key) == GetPtr(rd, vmem, key, hashOf[key])

Returns(r, val) == r.panic = None /\ r.ok /\ r.val = val
Misses(r) == r.panic = None /\ ~r.ok /\ r.ptr = Nil

\* C1: on a Write table that was Set no more distinct keys than it has slots,
\* GetPtr of every key that was Set returns ok and the bytes passed to the
\* most recent Set of that key.
C1_GetReturnsLastSet ==
    (status = "build" /\ Cardinality(Inserted) <= Cap(t)) =>
        \A k \in Inserted : Returns(BuildGet(k), shadow[k].val)

\* C2: after Sets with distinct keys, the Read table opened from all the bytes
\* WriteTo wrote has the same Cap, returns the value of every key that was
\* Set and (nil, false) for every other key.
C2_RoundTrip ==
    (FullData /\ \A k \in Inserted : shadow[k].sets = 1) =>
        /\ Cap(rd) = Cap(t)
        /\ \A k \in Inserted : Returns(ViewGetPtr(k), shadow[k].val)
        /\ \A k \in Keys \ Inserted : Misses(ViewGetPtr(k))

\* C3: a key that was Set more than once reads back as the value of its
\* last Set.
C3_Overwrite ==
    status = "build" =>
        \A k \in Inserted : shadow[k].sets >= 2 => Returns(BuildGet(k), shadow[k].val)

\* C4: GetPtr of a key that was never Set returns (nil, false) and does not
\* panic, on the Write table and on the Read table, full tables included.
C4_MissNeverFails ==
    /\ status = "build" => \A k \in Keys \ Inserted : Misses(BuildGet(k))
    /\ FullData => \A k \in Keys \ Inserted : Misses(ViewGetPtr(k))

\* C5: a key whose hash is 0 is stored under a non-zero fingerprint: after its
\* Set some slot with a non-zero hash holds the key, and GetPtr returns its
\* value.
C5_ZeroHashReplaced ==
    status = "build" =>
        \A k \in Inserted : hashOf[k] = 0 =>
            /\ \E i \in Slots(t) :
                  /\ HashAt(t, mem, i) # 0
                  /\ getKey(t, mem, KeyAt(t, mem, i)).key = k
            /\ Returns(BuildGet(k), shadow[k].val)

\* what the call reader p is in returns when no other call runs
Alone(p) == GetPtr(rd, vmem, procs[p].key, procs[p].hashVal)
SameResult(res, r) ==
    res.panic = r.panic /\ res.ok = r.ok /\ res.ptr = r.ptr /\ res.val = r.val

\* C6: whatever the interleaving of concurrent GetPtr calls on a Read table,
\* each call ends as it would when run alone: with the same (pointer, ok) and
\* value, and with a panic only if the call alone panics.
C6_ReadersIndependent ==
    \A p \in Procs :
        procs[p].pc \in {"done", "panic"} => SameResult(procs[p].res, Alone(p))

IsPowerOfTwo(c) == \E e \in 0..c : c = Pow2(e)
SmallestPowerOfTwoAtLeast(c, n) == IsPowerOfTwo(c) /\ c >= n /\ c < 2 * n

\* C7: Cap() of the table New(n, ...) returns is the smallest power of two
\* that is >= n, and a Read table opened from the bytes written has that Cap.
C7_CapIsNextPowerOfTwo ==
    /\ args.numItems >= 1 => SmallestPowerOfTwoAtLeast(Cap(t), args.numItems)
    /\ status = "view" => Cap(rd) = Cap(t)

\* C7 is exercised: New(3, ...) gave 4 slots, and so has the Read table
\* opened from all the bytes written.
C7_Witness == FullData /\ args.numItems = 3 /\ Cap(t) = 4 /\ Cap(rd) = 4

\* C8: the arena New allocates holds at least the length the layout gives,
\* so that every view lies inside it.
C8_ArenaHoldsLayout ==
    status # "init" => SizeofInt64 * t.arena >= t.length

\* C9: the stream WriteTo produces is the header followed by the arena bytes
\* from the hashes offset on, so that the byte at offset a of the layout is
\* at offset a of the stream; the count returned is the number of bytes.
C9_StreamIsLayout ==
    status = "written" =>
        /\ count = Len(file)
        /\ Len(file) = t.length
        /\ \A a \in t.hashes..(t.limit - 1) : file[a + 1] = mem[a]

\* C10: no Read table is returned for data that ends before the sections the
\* header implies: a Read table's key data starts inside its data.
C10_MalformedRejected ==
    status = "view" => rd.keyData <= rd.limit

\* a Close call: the step that counts it
CloseStep == mapping'.closes = mapping.closes + 1
Cleared(m) == m.data = 0 /\ m.dataLength = 0

\* C11: the region of a Read opened with NewFrom is unmapped at most once,
\* and it is unmapped exactly when data and dataLength are cleared; a Close
\* that finds them cleared changes nothing and returns nil, a Close whose
\* unmap succeeds clears them and returns nil, and a Close whose unmap fails
\* returns the error and leaves them as they are.
C11_UnmappedOnce ==
    /\ [](mapping.unmaps <= 1)
    /\ [](status = "view" => (mapping.unmaps = 1 <=> Cleared(mapping)))
    /\ [][CloseStep =>
            IF Cleared(mapping)
            THEN /\ mapping'.err = None
                 /\ mapping'.unmaps = mapping.unmaps
                 /\ Cleared(mapping')
            ELSE \/ /\ mapping'.err = None
                    /\ mapping'.unmaps = mapping.unmaps + 1
                    /\ Cleared(mapping')
                    /\ ~mapping'.live
                 \/ /\ mapping'.err # None
                    /\ mapping'.unmaps = mapping.unmaps
                    /\ mapping'.data = mapping.data
                    /\ mapping'.dataLength = mapping.dataLength
                    /\ mapping'.live = mapping.live]_vars

\* C11 is exercised: a Close failed in unmap, a later one unmapped the region,
\* and one more Close was made after that.
C11_Witness ==
    /\ status = "view"
    /\ mapping.closes = 3
    /\ mapping.unmaps = 1
    /\ mapping.err = None
    /\ Cleared(mapping)

\* C12: the region of a Read is not accessed after Close has unmapped it.
C12_NoReadAfterClose == ~mapping.touched

\* C13: with valueSize 0, GetPtr of a key that was Set (its hash not 0)
\* returns ok = true and does not panic.
C13_ZeroWidthValues ==
    (status = "build" /\ t.valueSize = 0 /\ Cardinality(Inserted) <= Cap(t)) =>
        \A k \in Inserted : hashOf[k] # 0 =>
            BuildGet(k).panic = None /\ BuildGet(k).ok

LayoutOf(T) == <<T.hashes, T.keys, T.values, T.keyData, T.length>>
Arguments == <<args.numItems, args.valueSize, args.totalKeyLength>>
\* the least multiple of 8 that is >= n
AlignedAtOrAfter(x, n) == x % 8 = 0 /\ x >= n /\ x < n + 8

\* C14: offsets returns hashes = 16, keys = 16 + 4*numItems rounded up to a
\* multiple of 8, values = keys + 8*numItems, keyData = values +
\* valueSize*numItems, length = keyData + totalKeyLength + 4*numItems; the
\* offsets ascend, keys and values are multiples of 8, and (1,1,1) gives
\* 16,24,32,33,38 and (5,17,40) gives 16,40,80,165,225.
C14_Offsets ==
    status = "layout" =>
        /\ t.hashes = 16
        /\ AlignedAtOrAfter(t.keys, 16 + 4 * args.numItems)
        /\ t.values = t.keys + 8 * args.numItems
        /\ t.keyData = t.values + args.valueSize * args.numItems
        /\ t.length = t.keyData + args.totalKeyLength + 4 * args.numItems
        /\ t.hashes <= t.keys /\ t.keys <= t.values
        /\ t.values <= t.keyData /\ t.keyData <= t.length
        /\ t.values % 8 = 0
        /\ Arguments = <<1, 1, 1>> => LayoutOf(t) = <<16, 24, 32, 33, 38>>
        /\ Arguments = <<5, 17, 40>> => LayoutOf(t) = <<16, 40, 80, 165, 225>>

\* C14 is exercised: the layout of (5, 17, 40) has been computed.
C14_Witness ==
    status = "layout" /\ Arguments = <<5, 17, 40>> /\ t.length = 225

\* C15: a Write table that was Set no more distinct keys than the number of
\* items New was asked for has an empty slot (a slot whose hash is 0).
C15_EmptySlotRemains ==
    (status = "build" /\ Cardinality(Inserted) <= args.numItems) =>
        \E i \in Slots(t) : HashAt(t, mem, i) = 0

\* every slot of the Write table is occupied
Full == \A i \in Slots(t) : HashAt(t, mem, i) # 0
\* the step is a Set(k, ...) call: one that returned, panicked or faulted
SetStepOf(k) ==
    /\ status = "build"
    /\ \/ /\ status' = "build" /\ sets' = sets + 1
          /\ k \in DOMAIN shadow'
          /\ k \in DOMAIN shadow => shadow'[k].sets = shadow[k].sets + 1
       \/ status' = "panic" /\ sets' = sets + 1 /\ panic'.key = k
       \/ status' = "fault" /\ panic'.in = "Set" /\ panic'.key = k
\* slot f.cursor holds key k with the value it was last Set
SlotHolds(T, M, f, val) ==
    f.panic = None /\ f.found /\ GetBytes(M, T.values + f.cursor * T.valueSize, T.valueSize) = val

\* C16: on a Write table whose slots are all occupied, Set of a key that was
\* never Set ends in the panic "out of space!" and leaves the memory of the
\* table and the key write cursor as they were; Set of a key that was Set
\* before returns and the slot of the key holds the new value.
C16_OutOfSpace ==
    [][\A k \in Keys :
          (Full /\ SetStepOf(k)) =>
              IF k \notin Inserted
              THEN /\ status' = "panic"
                   /\ panic'.msg = "out of space!"
                   /\ mem' = mem
                   /\ t'.keyOffset = t.keyOffset
              ELSE /\ status' = "build"
                   /\ SlotHolds(t', mem', find(t', mem', k, hashOf[k]), shadow'[k].val)]_vars

Occupied(T, M) == { i \in Slots(T) : HashAt(T, M, i) # 0 }
\* the key slot i of the table holds
SlotKey(T, M, i) == getKey(T, M, KeyAt(T, M, i))

\* C17: in a Write table no two occupied slots hold the same key, and there
\* are as many occupied slots as distinct keys were Set.
C17_OneSlotPerKey ==
    status = "build" =>
        /\ \A i, j \in Occupied(t, mem) :
              i # j => SlotKey(t, mem, i).key # SlotKey(t, mem, j).key
        /\ Cardinality(Occupied(t, mem)) = Cardinality(Inserted)

RECURSIVE SumLen(_)
SumLen(S) == IF S = {} THEN 0 ELSE LET k == CHOOSE x \in S : TRUE
                                   IN Len(k) + SumLen(S \ {k})
\* the record keys[i] points to is decoded, and where it ends
RecordAt(T, M, i, g) ==
    [ok |-> g.panic = None /\ KeyAt(T, M, i) >= 0,
     start |-> KeyAt(T, M, i),
     end |-> KeyAt(T, M, i) + g.reader.offset + Len(g.key)]
Record_(T, M, i) == RecordAt(T, M, i, SlotKey(T, M, i))
Budget == args.totalKeyLength + SizeofStringLength * Cap(t)

\* C18: after Sets of no more distinct keys than slots, with key lengths
\* that sum to at most totalKeyLength, the key write cursor is within the
\* budget totalKeyLength + 4*capacity, keys[i] of every occupied slot is the
\* start of a record that ends at or below the cursor, and the records of
\* different slots do not overlap.
C18_KeyRecords ==
    (/\ status = "build"
     /\ Cardinality(Inserted) <= Cap(t)
     /\ SumLen(Inserted) <= args.totalKeyLength) =>
        /\ t.keyOffset <= Budget
        /\ \A i \in Occupied(t, mem) :
              Record_(t, mem, i).ok /\ Record_(t, mem, i).end <= t.keyOffset
        /\ \A i, j \in Occupied(t, mem) :
              i # j => \/ Record_(t, mem, i).end <= Record_(t, mem, j).start
                       \/ Record_(t, mem, j).end <= Record_(t, mem, i).start

\* where the probe sequence of hash h starts, and how far along it slot i is
Initial(T, h) == BitAnd(h, T.numItems - 1)
Dist(T, h, i) == (i + T.numItems - Initial(T, h)) % T.numItems
\* the first empty slot from slot c on in ascending cyclic order, among the
\* next n slots; Nil when there is none
RECURSIVE FirstEmpty(_, _, _, _)
FirstEmpty(T, M, c, n) ==
    IF n = 0 THEN Nil
    ELSE IF HashAt(T, M, c) = 0 THEN c
    ELSE FirstEmpty(T, M, NextCursor(T, c), n - 1)
\* slot i holds key k under its fingerprint
StoredAt(T, M, k, i) ==
    /\ HashAt(T, M, i) = hashOf[k]
    /\ SlotKey(T, M, i).panic = None
    /\ SlotKey(T, M, i).key = k
\* the step is a Set(k, ...) of a key never Set before, and it returned
FirstSetOf(k) ==
    /\ status = "build" /\ status' = "build" /\ sets' = sets + 1
    /\ k \notin Inserted /\ k \in DOMAIN shadow'
PlacedInOrder(a, b) ==
    \E i, j \in Slots(t) :
        /\ i # j
        /\ StoredAt(t, mem, a, i)
        /\ StoredAt(t, mem, b, j)
        /\ KeyAt(t, mem, i) < KeyAt(t, mem, j)
              <=> Dist(t, hashOf[a], i) < Dist(t, hashOf[b], j)

\* C19: Set of a key that was not Set before stores the key in the first
\* empty slot in ascending cyclic order from hash & (capacity - 1); and two
\* keys that were Set and share their initial slot are both in the table,
\* the one inserted first (its key record comes first) nearer to that slot.
C19_ProbeOrder ==
    /\ [][\A k \in Keys :
            FirstSetOf(k) =>
               \E i \in {FirstEmpty(t, mem, Initial(t, hashOf[k]), t.numItems)} :
                  i # Nil /\ StoredAt(t', mem', k, i)]_vars
    /\ [](status = "build" /\ Cardinality(Inserted) <= Cap(t) =>
            \A a, b \in Inserted :
               (a # b /\ Initial(t, hashOf[a]) = Initial(t, hashOf[b]))
                  => PlacedInOrder(a, b))

\* the step is a Set(k, ...) that called addKey(k) and returned
AddKeyStepOf(k) ==
    SetStepOf(k) /\ status' = "build" /\ t'.keyOffset # t.keyOffset
\* getKey(offset) returns key k
Decodes(T, M, offset, k) ==
    getKey(T, M, offset).panic = None /\ getKey(T, M, offset).key = k

\* C20: getKey of the offset addKey(k) returned gives the bytes of k, and
\* addKey advances the key write cursor by the size of the varint of len(k)
\* plus len(k); the keys of the occupied slots still decode, after further
\* keys were added, to keys that were Set, each under its own fingerprint.
C20_KeyCodec ==
    /\ [][\A k \in Keys :
            AddKeyStepOf(k) =>
               /\ Decodes(t', mem', t.keyOffset, k)
               /\ t'.keyOffset = t.keyOffset + Len(VarintBytes(Len(k))) + Len(k)]_vars
    /\ [](status = "build" =>
            \A i \in Occupied(t, mem) :
               \E k \in Inserted : StoredAt(t, mem, k, i))

\* the slot d steps along the probe sequence of hash h
Along(T, h, d) == (Initial(T, h) + d) % T.numItems

\* C21: in a Write table, for every occupied slot i holding fingerprint h,
\* every slot on the cyclic path from h & (capacity - 1) up to i is occupied:
\* the loop of find, started for h, meets no empty slot before slot i.
C21_ProbeChain ==
    status = "build" =>
        \A i \in Occupied(t, mem) :
            /\ \A d \in 0 .. Dist(t, HashAt(t, mem, i), i) :
                   HashAt(t, mem, Along(t, HashAt(t, mem, i), d)) # 0
            /\ FirstEmpty(t, mem, Initial(t, HashAt(t, mem, i)),
                          Dist(t, HashAt(t, mem, i), i) + 1) = Nil
\* a key sits in slot 0 after its probe sequence wrapped around the end of
\* a table of more than two slots
C21_Witness ==
    /\ status = "build"
    /\ Cap(t) > 2
    /\ \E k \in Inserted :
          /\ StoredAt(t, mem, k, 0)
          /\ Dist(t, hashOf[k], 0) >= 1

\* the value bytes of slot i, and the first n bytes of the key data
ValueAt(T, M, i) == GetBytes(M, T.values + i * T.valueSize, T.valueSize)
KeyDataUpTo(T, M, n) == GetBytes(M, T.keyData, n)
\* the step leaves hash, key offset and value of every slot but i as they were
OthersKept(i) ==
    \A j \in Slots(t) \ {i} :
        /\ HashAt(t', mem', j) = HashAt(t, mem, j)
        /\ KeyAt(t', mem', j) = KeyAt(t, mem, j)
        /\ ValueAt(t', mem', j) = ValueAt(t, mem, j)
\* the step changes at most the value bytes of the slot holding key k
OnlyValueOf(k) ==
    /\ \A j \in Slots(t) :
          /\ HashAt(t', mem', j) = HashAt(t, mem, j)
          /\ KeyAt(t', mem', j) = KeyAt(t, mem, j)
    /\ KeyDataUpTo(t', mem', t.lenKeyData) = KeyDataUpTo(t, mem, t.lenKeyData)
    /\ t'.keyOffset = t.keyOffset
    /\ \E i \in Slots(t) :
          /\ StoredAt(t, mem, k, i)
          /\ ValueAt(t', mem', i) = shadow'[k].val
          /\ OthersKept(i)
\* the step takes one empty slot for key k and appends the record of k
OneNewSlot(k) ==
    /\ \E i \in Slots(t) :
          /\ HashAt(t, mem, i) = 0
          /\ HashAt(t', mem', i) = hashOf[k]
          /\ HashAt(t', mem', i) # 0
          /\ KeyAt(t', mem', i) = t.keyOffset
          /\ ValueAt(t', mem', i) = shadow'[k].val
          /\ OthersKept(i)
    /\ KeyDataUpTo(t', mem', t.keyOffset) = KeyDataUpTo(t, mem, t.keyOffset)
    /\ Decodes(t', mem', t.keyOffset, k)
    /\ t'.keyOffset = t.keyOffset + Len(VarintBytes(Len(k))) + Len(k)

\* C22: a Set(k, v) that returns, for a key that was Set before, changes
\* only the value bytes of the slot of k and leaves hashes, key offsets, key
\* data and the key write cursor as they were; for a new key it changes one
\* hash slot from 0 to the fingerprint, that slot's key offset and value, and
\* appends one record to the key data; every other slot keeps its hash, key
\* offset and value bytes.
C22_SetFrame ==
    [][\A k \in Keys :
          (SetStepOf(k) /\ status' = "build") =>
              IF k \in Inserted THEN OnlyValueOf(k) ELSE OneNewSlot(k)]_vars

\* the view of n bytes at address a lies in the data of the Read table T
InsideData(T, a, n) == 0 <= a /\ 0 <= n /\ a + n <= T.limit

\* C23: the four views of a Read table (hashes, keys, values, keyData) start
\* and end inside the data it was opened from; the keyData view does not
\* reach past the end of the data.
C23_ViewsInsideData ==
    status = "view" =>
        /\ InsideData(rd, rd.hashes, SizeofHash * rd.lenHashes)
        /\ InsideData(rd, rd.keys, SizeofKeyOffset * rd.lenHashes)
        /\ InsideData(rd, rd.values, rd.lenValues)
        /\ InsideData(rd, rd.keyData, rd.lenKeyData)

\* C24: unmap is called only on a region that mapMemory returned: a Close
\* of a Read that NewFromBytes made of the caller's bytes calls no unmap, so
\* it unmaps nothing, returns nil and leaves that memory accessible.
C24_UnmapOnlyMapped ==
    [][(CloseStep /\ ~mapping.mapped) =>
          /\ mapping'.unmaps = mapping.unmaps
          /\ mapping'.err = None
          /\ mapping'.live = mapping.live]_vars
====
